---- MODULE Spec2Model ----
(***************************************************************************)
(* Model of scripts/init_harness.py: the harness initializer.  A run       *)
(* parses three positionals, makes sure <project>/long_running/<feature>   *)
(* exists, and writes feature_list.json, progress.txt and init.sh there.   *)
(*                                                                         *)
(* The filesystem is the chain of directories                              *)
(*   0 = /   1 = /work   2 = /work/proj   3 = .../long_running             *)
(*   4 = .../long_running/<feature_name>                                   *)
(* plus the three harness files, one stray file in the harness directory   *)
(* (notes.md) and one file in the project directory (README.md).           *)
(* The process is an ordinary user (not root) with umask 022.              *)
(* The working directory of the process is /work; it may have been         *)
(* removed since the process entered it.                                   *)
(* File text is a sequence of <<section, index, field, value, printed>>    *)
(* units, all strings; printed is the text of the unit in the file, so the *)
(* size of a file is the length of its printed units put together.         *)
(* Descriptions are short: every rendered text fits the io buffer and      *)
(* reaches the file in one write() when the file is closed.  A write the   *)
(* medium cuts short (disk full, file size limit) is followed only from    *)
(* the starts named at FaultyFilesystems.                                  *)
(***************************************************************************)
EXTENDS Integers, Sequences, FiniteSets, TLC

VARIABLES dirs, files, clock, pc, argv, ex, mk, ts, exitCode, out,
          ioFaults, dirs0, files0, after1, lastWrite

vars == <<dirs, files, clock, pc, argv, ex, mk, ts, exitCode, out,
          ioFaults, dirs0, files0, after1, lastWrite>>

\* ---------------------------------------------------------------- bounds
MaxClock == 2
MaxDescLen == 2
MaxArgc == 4

\* ------------------------------------------------------------- constants
\* the time scale is compressed: a tick is a fraction of a second, and the
\* unit strftime truncates to is as coarse as the one isoformat keeps whole
TicksPerSecond == 2
TicksPerMinute == 2
ExecMode == 493
FileCreateMode == 420
DirCreateMode == 493
ArgparseExit == 2
TracebackExit == 1
RequiredPositionals == 3

Procs == {1, 2}
Root == 0
ParentDir == 1
ProjectDir == 2
LongRunningDir == 3
HarnessDir == 4
Chain == 1..4

FeatureListFile == "feature_list.json"
ProgressFile == "progress.txt"
InitScriptFile == "init.sh"
HarnessFiles == {FeatureListFile, ProgressFile, InitScriptFile}
StrayFile == "notes.md"
ReadmeFile == "README.md"
AllFiles == HarnessFiles \cup {StrayFile, ReadmeFile}

\* directory that holds each file
DirOf(f) == IF f = ReadmeFile THEN ProjectDir ELSE HarnessDir

\* ------------------------------------------------------ permission bits
OwnerCanWrite(mode) == (mode \div 128) % 2 = 1
OtherCanWrite(mode) == (mode \div 2) % 2 = 1

\* may this process (owner of what it created, "other" on foreign files) write?
MayWrite(node) == IF node.owned THEN OwnerCanWrite(node.mode)
                                ELSE OtherCanWrite(node.mode)

AbsentDir == [kind |-> "absent", mode |-> 0, owned |-> TRUE, by |-> 0]
AbsentFile == [kind |-> "absent", text |-> <<>>, mode |-> 0, owned |-> TRUE]

\* ------------------------------------------------------------ arguments
\* project_path is given either relative to the working directory /work
\* or absolute.
Cwd == <<"work">>
RelProjectPath == [abs |-> FALSE, parts |-> <<"proj">>]
AbsProjectPath == [abs |-> TRUE, parts |-> <<"work", "proj">>]
ProjectPaths == {RelProjectPath, AbsProjectPath}

\* Path(args.project_path).resolve()
Resolve(p) == IF p.abs THEN p.parts ELSE Cwd \o p.parts

\* project_path.name: the last component
PathName(parts) == parts[Len(parts)]

\* the description argument: n words separated by blanks
RECURSIVE Description(_)
Description(n) == IF n = 1 THEN "x" ELSE Description(n - 1) \o " x"
Descriptions == {Description(n) : n \in 1..MaxDescLen}

\* ---------------------------------------------------------- conversions
\* datetime.isoformat(): the fraction of a second is printed, with six
\* digits, only when it is not zero
IsoFormat(t) ==
    "2026-01-01T00:0" \o ToString(t \div TicksPerMinute) \o ":00"
    \o (IF t % TicksPerSecond = 0 THEN ""
        ELSE "." \o ToString((t % TicksPerSecond) * (1000000 \div TicksPerSecond)))

\* datetime.strftime("%Y-%m-%d %H:%M"): truncated to the minute
MinuteFormat(t) == "2026-01-01 00:0" \o ToString(t \div TicksPerMinute)

\* json.dump of a bool / of an int / of a string (no character of the
\* strings used here needs escaping)
JsonBool(b) == IF b THEN "true" ELSE "false"
JsonInt(n) == ToString(n)
JsonStr(s) == "\"" \o s \o "\""

\* one unit of text: <<section, index, field, value, printed>>; printed is
\* the exact text the unit occupies in the file, byte for byte (a
\* character outside ASCII is shown as one "?" per byte of its encoding)
Unit(sec, idx, fld, val, printed) == <<sec, idx, fld, val, printed>>

\* the text of a file as one string, and its size in bytes
RECURSIVE Printed(_)
Printed(text) == IF text = <<>> THEN "" ELSE Head(text)[5] \o Printed(Tail(text))
Bytes(text) == Len(Printed(text))

\* ------------------------------------------------- create_feature_list
SetupFeature ==
    [id |-> 1, category |-> "setup",
     description |-> "Project initialization and basic structure",
     steps |-> <<"Create project directory structure",
                 "Initialize package management",
                 "Verify basic setup works">>,
     priority |-> "high", passes |-> FALSE]

CoreFeature ==
    [id |-> 2, category |-> "core",
     description |-> "[TODO: Add core feature description]",
     steps |-> <<"[TODO: Add verification step 1]",
                 "[TODO: Add verification step 2]">>,
     priority |-> "high", passes |-> FALSE]

SeedFeatures == <<SetupFeature, CoreFeature>>

\* variant: the hard-coded count disagrees with the seeded list
SeedMetadataMiscounted(updated) ==
    [total_features |-> 3, completed_features |-> 0, last_updated |-> updated]

SeedMetadata(updated) ==
    [total_features |-> 2, completed_features |-> 0, last_updated |-> updated]

\* the dict built at lines 24-60
feature_list(project_name, description, created, updated) ==
    [project  |-> [name |-> project_name, description |-> description,
                   created |-> IsoFormat(created)],
     features |-> SeedFeatures,
     metadata |-> SeedMetadata(IsoFormat(updated))]

\* json.dump of a list of strings under a key of a feature
DumpSteps(i, steps) ==
    [k \in 1..Len(steps) |->
        Unit("features", i, "steps", steps[k],
             (IF k = 1 THEN "      \"steps\": [\n" ELSE "")
             \o "        " \o JsonStr(steps[k])
             \o (IF k = Len(steps) THEN "\n      ],\n" ELSE ",\n"))]

\* json.dump of one feature record, keys in insertion order
DumpFeature(ft, last) ==
    LET i == JsonInt(ft.id) IN
    <<Unit("features", i, "id", JsonInt(ft.id),
           "    {\n      \"id\": " \o JsonInt(ft.id) \o ",\n"),
      Unit("features", i, "category", ft.category,
           "      \"category\": " \o JsonStr(ft.category) \o ",\n"),
      Unit("features", i, "description", ft.description,
           "      \"description\": " \o JsonStr(ft.description) \o ",\n")>>
    \o DumpSteps(i, ft.steps)
    \o <<Unit("features", i, "priority", ft.priority,
              "      \"priority\": " \o JsonStr(ft.priority) \o ",\n"),
         Unit("features", i, "passes", JsonBool(ft.passes),
              "      \"passes\": " \o JsonBool(ft.passes) \o "\n"
              \o (IF last THEN "    }\n" ELSE "    },\n"))>>

RECURSIVE DumpFeatures(_)
DumpFeatures(fts) ==
    IF fts = <<>> THEN <<>>
    ELSE DumpFeature(Head(fts), Len(fts) = 1) \o DumpFeatures(Tail(fts))

\* the seeded list is a literal of the source: its dump is computed once
SeedFeaturesDump == DumpFeatures(SeedFeatures)
DumpList(fts) == IF fts = SeedFeatures THEN SeedFeaturesDump ELSE DumpFeatures(fts)

\* the two timestamp members as json.dump prints them: "created" closes
\* the project object, "last_updated" closes the document
CreatedUnit(iso) ==
    Unit("project", "", "created", iso,
         "    \"created\": " \o JsonStr(iso) \o "\n  },\n  \"features\": [\n")
LastUpdatedUnit(iso) ==
    Unit("metadata", "", "last_updated", iso,
         "    \"last_updated\": " \o JsonStr(iso) \o "\n  }\n}")

\* json.dump(feature_list, f, indent=2, ensure_ascii=False)
JsonDump(d) ==
    <<Unit("project", "", "name", d.project.name,
           "{\n  \"project\": {\n    \"name\": " \o JsonStr(d.project.name) \o ",\n"),
      Unit("project", "", "description", d.project.description,
           "    \"description\": " \o JsonStr(d.project.description) \o ",\n"),
      CreatedUnit(d.project.created)>>
    \o DumpList(d.features)
    \o <<Unit("metadata", "", "total_features", JsonInt(d.metadata.total_features),
              "  ],\n  \"metadata\": {\n    \"total_features\": "
              \o JsonInt(d.metadata.total_features) \o ",\n"),
         Unit("metadata", "", "completed_features", JsonInt(d.metadata.completed_features),
              "    \"completed_features\": "
              \o JsonInt(d.metadata.completed_features) \o ",\n"),
         LastUpdatedUnit(d.metadata.last_updated)>>

\* ------------------------------------------------ create_progress_file
\* the Created line and the Session heading of the f-string
ProgressCreatedUnit(minute) ==
    Unit("progress", "", "created", minute,
         "**Created:** " \o minute \o "\n\n---\n\n")
SessionUnit(minute) ==
    Unit("progress", "", "session", minute,
         "## Session: " \o minute \o " (Initialization)\n\n")

\* the fixed parts of the f-string
ProgressTitle ==
    Unit("progress", "", "title", "# Project Progress Log",
         "# Project Progress Log\n\n")
WhatWasDone ==
    Unit("progress", "", "what_was_done", "Initialized project harness",
         "### What was done:\n" \o
         "- Initialized project harness\n" \o
         "- Created feature_list.json with initial feature requirements\n" \o
         "- Created progress.txt for session tracking\n" \o
         "- Created init.sh for environment setup\n\n")
CurrentState ==
    Unit("progress", "", "current_state", "Project is ready for development",
         "### Current State:\n" \o
         "- Project is ready for development\n" \o
         "- Feature list needs to be expanded based on requirements\n\n")
NextSteps ==
    Unit("progress", "", "next_steps", "Review and expand feature_list.json",
         "### Next Steps:\n" \o
         "- Review and expand feature_list.json with all required features\n" \o
         "- Implement the first feature from the list\n\n" \o
         "---\n\n")
FutureNotes ==
    Unit("progress", "", "notes", "Notes for Future Sessions",
         "## Notes for Future Sessions\n\n" \o
         "When starting a new session:\n" \o
         "1. Read this file to understand recent progress\n" \o
         "2. Check git log for commit history\n" \o
         "3. Review feature_list.json for next task\n" \o
         "4. Run ./init.sh to start development environment\n" \o
         "5. Pick ONE feature and implement it\n" \o
         "6. Update this file before ending session\n\n")

progress_content(project_name, description, created, session) ==
    <<ProgressTitle,
      Unit("progress", "", "project", project_name,
           "## Project: " \o project_name \o "\n"),
      Unit("progress", "", "description", description,
           "**Description:** " \o description \o "\n"),
      ProgressCreatedUnit(MinuteFormat(created)),
      SessionUnit(MinuteFormat(session)),
      WhatWasDone,
      CurrentState,
      NextSteps,
      FutureNotes>>

\* -------------------------------------------------- create_init_script
init_script_content ==
    <<Unit("init", "", "shebang", "#!/bin/bash",
            "#!/bin/bash\n" \o
            "# Development Environment Initialization Script\n" \o
            "# Run this at the start of each coding session\n\n" \o
            "set -e\n\n" \o
            "echo \"???? Starting development environment...\"\n\n"),
      Unit("init", "", "paths", "SCRIPT_DIR PROJECT_ROOT",
            "# Resolve paths\n" \o
            "SCRIPT_DIR=\"$(cd \"$(dirname \"$0\")\" && pwd)\"\n" \o
            "PROJECT_ROOT=\"$(cd \"$SCRIPT_DIR/../..\" && pwd)\"\n\n" \o
            "# Navigate to project root\n" \o
            "cd \"$PROJECT_ROOT\"\n\n"),
      Unit("init", "", "deps", "package.json requirements.txt Cargo.toml go.mod",
            "# Check for common package managers and install dependencies\n" \o
            "if [ -f \"package.json\" ]; then\n" \o
            "    echo \"???? Installing Node.js dependencies...\"\n" \o
            "    npm install\n" \o
            "elif [ -f \"requirements.txt\" ]; then\n" \o
            "    echo \"???? Installing Python dependencies...\"\n" \o
            "    pip install -r requirements.txt\n" \o
            "elif [ -f \"Cargo.toml\" ]; then\n" \o
            "    echo \"???? Building Rust project...\"\n" \o
            "    cargo build\n" \o
            "elif [ -f \"go.mod\" ]; then\n" \o
            "    echo \"???? Installing Go dependencies...\"\n" \o
            "    go mod download\n" \o
            "fi\n\n" \o
            "# Start development server (customize based on your project)\n" \o
            "# Uncomment and modify the appropriate line:\n\n" \o
            "# Node.js\n" \o
            "# npm run dev &\n\n" \o
            "# Python Flask\n" \o
            "# python app.py &\n\n" \o
            "# Python Django\n" \o
            "# python manage.py runserver &\n\n" \o
            "# Go\n" \o
            "# go run main.go &\n\n"),
      Unit("init", "", "help", "Quick commands",
            "echo \"??? Development environment ready!\"\n" \o
            "echo \"\"\n" \o
            "echo \"???? Quick commands:\"\n" \o
            "echo \"   - Check progress: cat $SCRIPT_DIR/progress.txt\"\n" \o
            "echo \"   - View features:  cat $SCRIPT_DIR/feature_list.json\"\n" \o
            "echo \"   - Git history:    git log --oneline -10\"\n")>>

\* ------------------------------------------------------ reading a text
Values(text, sec, idx, fld) ==
    {text[i][4] : i \in {j \in 1..Len(text) :
        text[j][1] = sec /\ text[j][2] = idx /\ text[j][3] = fld}}
FeatureIds(text) == {text[i][2] : i \in {j \in 1..Len(text) : text[j][1] = "features"}}
\* number of units a key has in the text (a scalar key has exactly one)
Count(text, sec, idx, fld) ==
    Cardinality({i \in 1..Len(text) :
        text[i][1] = sec /\ text[i][2] = idx /\ text[i][3] = fld})

\* ------------------------------------------------------------ syscalls
\* walking the path down to directory j: the first component that is not a
\* directory decides, ENOTDIR for a regular file, ENOENT for a missing name
LookupErr(ds, j) ==
    LET bad == {i \in 0..j : ds[i].kind # "dir"} IN
    IF bad = {} THEN "OK"
    ELSE LET first == CHOOSE i \in bad : \A k \in bad : i <= k IN
         IF ds[first].kind = "file" THEN "ENOTDIR" ELSE "ENOENT"

\* os.mkdir(node j): the error it raises, "OK" if none
OsMkdirErr(ds, j) ==
    IF LookupErr(ds, j - 1) # "OK" THEN LookupErr(ds, j - 1)
    ELSE IF ds[j].kind # "absent" THEN "EEXIST"
    ELSE IF ~MayWrite(ds[j - 1]) THEN "EACCES"
    ELSE "OK"

\* the directory os.mkdir creates (mode 0777 masked by the umask)
NewDir(p) == [kind |-> "dir", mode |-> DirCreateMode, owned |-> TRUE, by |-> p]

\* Path.exists()
PathExists(ds, j) == ds[j].kind # "absent"

\* Path.is_dir()
IsDir(ds, j) == ds[j].kind = "dir"

\* Path.resolve() of a relative path asks os.getcwd(), which raises
\* FileNotFoundError when the working directory no longer exists
ResolveErr(ds, path) ==
    IF ~path.abs /\ ~IsDir(ds, ParentDir) THEN "ENOENT" ELSE "OK"

\* open(path, "w"): the error it raises, "OK" if none
OpenErr(ds, fs, f) ==
    IF LookupErr(ds, DirOf(f)) # "OK" THEN LookupErr(ds, DirOf(f))
    ELSE IF fs[f].kind = "file"
         THEN (IF MayWrite(fs[f]) THEN "OK" ELSE "EACCES")
    ELSE IF MayWrite(ds[DirOf(f)]) THEN "OK" ELSE "EACCES"

\* variant: an existing file is opened without truncation ("r+")
OpenNoTrunc(fs, f) ==
    IF fs[f].kind = "file"
    THEN fs
    ELSE [fs EXCEPT ![f] = [kind |-> "file", text |-> <<>>,
                            mode |-> FileCreateMode, owned |-> TRUE]]

\* open(path, "w") succeeding: creates the file or truncates it
OpenTrunc(fs, f) ==
    IF fs[f].kind = "file"
    THEN [fs EXCEPT ![f].text = <<>>]
    ELSE [fs EXCEPT ![f] = [kind |-> "file", text |-> <<>>,
                            mode |-> FileCreateMode, owned |-> TRUE]]

\* what a file keeps beyond the first n bytes: the end of an earlier text
TailUnit(old, n) ==
    LET rest == SubSeq(Printed(old), n + 1, Bytes(old))
    IN IF Bytes(old) > n THEN <<Unit("tail", "", "bytes", rest, rest)>> ELSE <<>>

\* the buffered text flushed at close: written at offset 0 of the file,
\* over the first bytes of whatever the file holds by then
WriteAt0(fs, f, new) ==
    [fs EXCEPT ![f].text = new \o TailUnit(@, Bytes(new))]

\* os.chmod(path, 0o755)
ChmodErr(fs, f) == IF fs[f].owned THEN "OK" ELSE "EPERM"
\* variant: the mode is left as it was
ChmodNoop(fs, f, mode) == fs

Chmod(fs, f, mode) == [fs EXCEPT ![f].mode = mode]

\* ------------------------------------------------- initial filesystems
OldText(f) ==
    IF f = FeatureListFile
    THEN JsonDump([project  |-> [name |-> "proj", description |-> "x",
                                 created |-> "2025-12-31T23:59:59"],
                   features |-> <<[SetupFeature EXCEPT !.passes = TRUE], CoreFeature,
                                  [CoreFeature EXCEPT !.id = 3, !.priority = "low"]>>,
                   metadata |-> [total_features |-> 3, completed_features |-> 1,
                                 last_updated |-> "2025-12-31T23:59:59.250000"]])
    ELSE IF f = ProgressFile
    THEN <<Unit("progress", "", "title", "# Project Progress Log",
                "# Project Progress Log\n\n"),
           Unit("progress", "", "session", "2025-12-31 23:59",
                "## Session: 2025-12-31 23:59 (Initialization)\n\n")>>
    ELSE <<Unit("init", "", "shebang", "#!/bin/bash", "#!/bin/bash\n"),
           Unit("init", "", "custom", "npm run dev &", "npm run dev &\n")>>

FileVariant(f, v) ==
    IF v = "absent" THEN AbsentFile
    ELSE IF v = "plain"
    THEN [kind |-> "file", text |-> OldText(f), mode |-> 420, owned |-> TRUE]
    ELSE IF v = "readonly"
    THEN [kind |-> "file", text |-> OldText(f), mode |-> 292, owned |-> TRUE]
    ELSE [kind |-> "file", text |-> OldText(f), mode |-> 438, owned |-> FALSE]

UserFile == [kind |-> "file", text |-> <<Unit("user", "", "text", "keep me", "keep me\n")>>,
             mode |-> 420, owned |-> TRUE]

FileScenarios ==
    {s \in [HarnessFiles -> {"absent", "plain", "readonly", "foreign"}] :
        \/ \A f \in HarnessFiles : s[f] \in {"absent", "plain"}
        \/ \E f \in HarnessFiles :
             /\ s[f] \in {"readonly", "foreign"}
             /\ \E v \in {"absent", "plain"} :
                  \A g \in HarnessFiles \ {f} : s[g] = v}

\* d directories of the chain exist; the next name may be taken by a
\* regular file; the deepest existing directory may be read-only
ChainState(d, blocked, readonly) ==
    [j \in 0..4 |->
        IF j <= d
        THEN [kind |-> "dir", mode |-> IF j = d /\ readonly THEN 365 ELSE 493,
              owned |-> TRUE, by |-> 0]
        ELSE IF j = d + 1 /\ blocked
        THEN [kind |-> "file", mode |-> 420, owned |-> TRUE, by |-> 0]
        ELSE AbsentDir]

FilesState(d, scen, stray) ==
    [f \in AllFiles |->
        IF f = ReadmeFile THEN (IF d >= ProjectDir THEN UserFile ELSE AbsentFile)
        ELSE IF f = StrayFile THEN (IF d = HarnessDir /\ stray THEN UserFile ELSE AbsentFile)
        ELSE IF d = HarnessDir THEN FileVariant(f, scen[f]) ELSE AbsentFile]

NoFiles == [f \in HarnessFiles |-> "absent"]
UniformScenarios == {[f \in HarnessFiles |-> v] : v \in {"absent", "plain"}}

InitialFilesystems ==
    {[dirs |-> ChainState(d, b, r), files |-> FilesState(d, NoFiles, FALSE)] :
        d \in 0..3, b \in BOOLEAN, r \in BOOLEAN}
    \cup
    {[dirs |-> ChainState(HarnessDir, FALSE, r), files |-> FilesState(HarnessDir, s, y)] :
        s \in UniformScenarios, r \in BOOLEAN, y \in BOOLEAN}
    \cup
    {[dirs |-> ChainState(HarnessDir, FALSE, FALSE), files |-> FilesState(HarnessDir, s, TRUE)] :
        s \in FileScenarios}

\* the filesystems the concurrent runs start from
SharedFilesystems ==
    {[dirs |-> ChainState(d, FALSE, FALSE), files |-> FilesState(d, s, TRUE)] :
        d \in 0..4, s \in {NoFiles}}

\* ---------------------------------------------------------------- state
Idle == [cur |-> 0, phase |-> "idle"]
NoTimes == [first |-> -1, second |-> -1]
NoWrite == [by |-> 0, text |-> <<>>]

ArgLists ==
    [argc : 0..MaxArgc, project_path : ProjectPaths,
     feature_name : {"my-feature"}, description : Descriptions]

InitCommon(fsys) ==
    /\ dirs = fsys.dirs
    /\ files = fsys.files
    /\ dirs0 = fsys.dirs
    /\ files0 = fsys.files
    /\ clock = 0
    /\ pc = [p \in Procs |-> "parse"]
    /\ ex = [p \in Procs |-> FALSE]
    /\ mk = [p \in Procs |-> Idle]
    /\ ts = [p \in Procs |-> NoTimes]
    /\ exitCode = [p \in Procs |-> -1]
    /\ out = [p \in Procs |-> <<>>]
    /\ after1 = [set |-> FALSE, dirs |-> fsys.dirs, files |-> fsys.files]
    /\ lastWrite = [f \in HarnessFiles |-> NoWrite]

\* the starts from which the medium may refuse bytes (a write can then
\* stop after any number of bytes, so these are kept few): a harness
\* directory that is there, empty or holding an earlier run's files, and
\* a valid command line with an absolute path and the shortest description
FaultyFilesystems ==
    {[dirs |-> ChainState(HarnessDir, FALSE, FALSE), files |-> FilesState(HarnessDir, s, TRUE)] :
        s \in UniformScenarios}

\* one invocation, then the same command line run a second time
\* (a working directory is never a regular file)
Init ==
    \E fsys \in InitialFilesystems, a \in ArgLists :
         /\ a.project_path.abs \/ fsys.dirs[ParentDir].kind # "file"
         /\ InitCommon(fsys)
         /\ argv = [p \in Procs |-> a]
         /\ ioFaults \in (IF /\ fsys \in FaultyFilesystems
                              /\ a.argc = RequiredPositionals
                              /\ a.project_path.abs
                              /\ a.description = Description(1)
                           THEN BOOLEAN ELSE {FALSE})

\* two invocations on the same harness directory, started together
InitConc ==
    /\ \E fsys \in SharedFilesystems : InitCommon(fsys)
    /\ ioFaults = FALSE
    /\ \E d1 \in {Description(MaxDescLen)}, d2 \in Descriptions :
         argv = [p \in Procs |->
                   [argc |-> RequiredPositionals, project_path |-> AbsProjectPath,
                    feature_name |-> "my-feature",
                    description |-> IF p = 1 THEN d1 ELSE d2]]

project_name(p) == PathName(Resolve(argv[p].project_path))

\* an uncaught exception ends the process with a traceback
Raise(p, err) ==
    /\ pc' = [pc EXCEPT ![p] = "failed"]
    /\ exitCode' = [exitCode EXCEPT ![p] = TracebackExit]
    /\ out' = [out EXCEPT ![p] = Append(@, err)]

Goto(p, next) == pc' = [pc EXCEPT ![p] = next]
Say(p, msg) == out' = [out EXCEPT ![p] = Append(@, msg)]

\* --------------------------------------------------------------- steps
\* the clock advances between steps; only datetime.now() observes it, so
\* its advance is taken right before a reading
Tick ==
    /\ clock < MaxClock
    /\ \E p \in Procs :
         pc[p] \in {"now_created", "now_updated", "now_progress_created", "now_session"}
    /\ clock' = clock + 1
    /\ UNCHANGED <<dirs, files, pc, argv, ex, mk, ts, exitCode, out,
                   ioFaults, dirs0, files0, after1, lastWrite>>

\* variant: extra positionals are accepted and ignored
ParseArgsAtLeastThree(p) ==
    /\ pc[p] = "parse"
    /\ IF argv[p].argc >= RequiredPositionals
       THEN /\ Goto(p, "resolve")
            /\ UNCHANGED <<exitCode, out>>
       ELSE /\ Goto(p, "exit")
            /\ exitCode' = [exitCode EXCEPT ![p] = ArgparseExit]
            /\ Say(p, "usage error")
    /\ UNCHANGED <<dirs, files, clock, argv, ex, mk, ts,
                   ioFaults, dirs0, files0, after1, lastWrite>>

\* parser.parse_args(): three positionals, or usage error and exit 2
ParseArgs(p) ==
    /\ pc[p] = "parse"
    /\ IF argv[p].argc = RequiredPositionals
       THEN /\ Goto(p, "resolve")
            /\ UNCHANGED <<exitCode, out>>
       ELSE /\ Goto(p, "exit")
            /\ exitCode' = [exitCode EXCEPT ![p] = ArgparseExit]
            /\ Say(p, "usage error")
    /\ UNCHANGED <<dirs, files, clock, argv, ex, mk, ts,
                   ioFaults, dirs0, files0, after1, lastWrite>>

\* project_path = Path(args.project_path).resolve()
ResolvePath(p) ==
    /\ pc[p] = "resolve"
    /\ LET err == ResolveErr(dirs, argv[p].project_path) IN
       IF err = "OK"
       THEN /\ Goto(p, "exists")
            /\ UNCHANGED <<exitCode, out>>
       ELSE Raise(p, err)
    /\ UNCHANGED <<dirs, files, clock, argv, ex, mk, ts,
                   ioFaults, dirs0, files0, after1, lastWrite>>

\* if not project_path.exists():
CheckExists(p) ==
    /\ pc[p] = "exists"
    /\ ex' = [ex EXCEPT ![p] = PathExists(dirs, ProjectDir)]
    /\ Goto(p, IF PathExists(dirs, ProjectDir) THEN "mkdir_harness" ELSE "mkdir_project")
    /\ UNCHANGED <<dirs, files, clock, argv, mk, ts, exitCode, out,
                   ioFaults, dirs0, files0, after1, lastWrite>>

\* one os.mkdir attempt of Path.mkdir(parents=True, exist_ok=existOk)
MkdirStep(p, target, existOk, donePc, msg) ==
    LET j      == IF mk[p].phase = "idle" THEN target ELSE mk[p].cur
        retry  == mk[p].phase = "up"
        err    == OsMkdirErr(dirs, j)
        eok    == IF j = target THEN existOk ELSE TRUE
        made   == err = "OK"
        passed == made \/ (err # "ENOENT" /\ eok /\ IsDir(dirs, j))
    IN
    /\ dirs' = IF made THEN [dirs EXCEPT ![j] = NewDir(p)] ELSE dirs
    /\ IF passed
       THEN IF j = target
            THEN /\ mk' = [mk EXCEPT ![p] = Idle]
                 /\ Goto(p, donePc)
                 /\ Say(p, msg)
                 /\ UNCHANGED exitCode
            ELSE /\ mk' = [mk EXCEPT ![p] = [cur |-> j + 1, phase |-> "up"]]
                 /\ UNCHANGED <<pc, out, exitCode>>
       ELSE IF err = "ENOENT" /\ ~retry
            THEN /\ mk' = [mk EXCEPT ![p] = [cur |-> j - 1, phase |-> "down"]]
                 /\ UNCHANGED <<pc, out, exitCode>>
            ELSE /\ mk' = [mk EXCEPT ![p] = Idle]
                 /\ Raise(p, err)

\* variant: project_path.mkdir() without parents=True
MkdirProjectNoParents(p) ==
    /\ pc[p] = "mkdir_project"
    /\ LET err == OsMkdirErr(dirs, ProjectDir) IN
       IF err = "OK"
       THEN /\ dirs' = [dirs EXCEPT ![ProjectDir] = NewDir(p)]
            /\ Goto(p, "mkdir_harness")
            /\ Say(p, "Created project directory")
            /\ UNCHANGED exitCode
       ELSE /\ Raise(p, err)
            /\ UNCHANGED dirs
    /\ UNCHANGED <<files, clock, argv, ex, mk, ts,
                   ioFaults, dirs0, files0, after1, lastWrite>>

\* project_path.mkdir(parents=True)
MkdirProject(p) ==
    /\ pc[p] = "mkdir_project"
    /\ MkdirStep(p, ProjectDir, FALSE, "mkdir_harness", "Created project directory")
    /\ UNCHANGED <<files, clock, argv, ex, ts,
                   ioFaults, dirs0, files0, after1, lastWrite>>

\* variant: harness_dir.mkdir(parents=True) without exist_ok
MkdirHarnessNoExistOk(p) ==
    /\ pc[p] = "mkdir_harness"
    /\ MkdirStep(p, HarnessDir, FALSE, "now_created", "Initializing harness")
    /\ UNCHANGED <<files, clock, argv, ex, ts,
                   ioFaults, dirs0, files0, after1, lastWrite>>

\* harness_dir.mkdir(parents=True, exist_ok=True)
MkdirHarness(p) ==
    /\ pc[p] = "mkdir_harness"
    /\ MkdirStep(p, HarnessDir, TRUE, "now_created", "Initializing harness")
    /\ UNCHANGED <<files, clock, argv, ex, ts,
                   ioFaults, dirs0, files0, after1, lastWrite>>

\* a datetime.now() call
ReadClock(p, field, next) ==
    /\ ts' = [ts EXCEPT ![p][field] = clock]
    /\ Goto(p, next)
    /\ UNCHANGED <<dirs, files, clock, argv, ex, mk, exitCode, out,
                   ioFaults, dirs0, files0, after1, lastWrite>>

\* variant: the error of open() is caught and ignored
OpenStepSwallowed(p, f, next) ==
    /\ files' = IF OpenErr(dirs, files, f) = "OK" THEN OpenTrunc(files, f) ELSE files
    /\ Goto(p, next)
    /\ UNCHANGED <<dirs, clock, argv, ex, mk, ts, exitCode, out,
                   ioFaults, dirs0, files0, after1, lastWrite>>

\* with open(output_path, "w", encoding="utf-8") as f:
OpenStep(p, f, next) ==
    LET err == OpenErr(dirs, files, f) IN
    /\ IF err = "OK"
       THEN /\ files' = OpenTrunc(files, f)
            /\ Goto(p, next)
            /\ UNCHANGED <<exitCode, out, ts>>
       ELSE /\ Raise(p, err)
            /\ ts' = [ts EXCEPT ![p] = NoTimes]
            /\ UNCHANGED files
    /\ UNCHANGED <<dirs, clock, argv, ex, mk,
                   ioFaults, dirs0, files0, after1, lastWrite>>

\* the first n bytes of a text: the units that fit whole, then the
\* beginning of the unit the cut falls in
RECURSIVE Cut(_, _)
Cut(text, n) ==
    IF text = <<>> \/ n = 0 THEN <<>>
    ELSE LET u == Head(text) IN
         IF Len(u[5]) <= n
         THEN <<u>> \o Cut(Tail(text), n - Len(u[5]))
         ELSE <<Unit("cut", "", "bytes", SubSeq(u[5], 1, n), SubSeq(u[5], 1, n))>>

\* what write() raises when the medium refuses bytes: OSError, whether
\* no space is left (ENOSPC) or the file size limit of the process is
\* reached (EFBIG); Python has no subclass for either
WriteError == "OSError"

\* f.write(content) / json.dump(..., f), flushed when the with block closes;
\* msgs is what the function prints before the next step.  A write that
\* fails leaves the bytes that reached the file: any number of them short
\* of the whole text.
WriteStep(p, f, text, next, msgs) ==
    /\ \E ok \in (IF ioFaults THEN BOOLEAN ELSE {TRUE}) :
         IF ok
         THEN /\ files' = WriteAt0(files, f, text)
              /\ lastWrite' = [lastWrite EXCEPT ![f] = [by |-> p, text |-> text]]
              /\ Goto(p, next)
              /\ out' = [out EXCEPT ![p] = @ \o msgs]
              /\ UNCHANGED exitCode
         ELSE /\ \E n \in 0..(Bytes(text) - 1) :
                   files' = WriteAt0(files, f, Cut(text, n))
              /\ Raise(p, WriteError)
              /\ UNCHANGED lastWrite
    /\ ts' = [ts EXCEPT ![p] = NoTimes]
    /\ UNCHANGED <<dirs, clock, argv, ex, mk, ioFaults, dirs0, files0, after1>>

\* "created": datetime.now().isoformat()
NowCreated(p) ==
    /\ pc[p] = "now_created"
    /\ ReadClock(p, "first", "now_updated")

\* "last_updated": datetime.now().isoformat()
NowLastUpdated(p) ==
    /\ pc[p] = "now_updated"
    /\ ReadClock(p, "second", "open_feature_list")

OpenFeatureList(p) ==
    /\ pc[p] = "open_feature_list"
    /\ OpenStep(p, FeatureListFile, "dump_feature_list")

DumpFeatureList(p) ==
    /\ pc[p] = "dump_feature_list"
    /\ WriteStep(p, FeatureListFile,
                 JsonDump(feature_list(project_name(p), argv[p].description,
                                       ts[p].first, ts[p].second)),
                 "now_progress_created", <<"Created feature_list.json">>)

\* **Created:** {datetime.now().strftime(...)}
NowProgressCreated(p) ==
    /\ pc[p] = "now_progress_created"
    /\ ReadClock(p, "first", "now_session")

\* ## Session: {datetime.now().strftime(...)}
NowSession(p) ==
    /\ pc[p] = "now_session"
    /\ ReadClock(p, "second", "open_progress")

OpenProgress(p) ==
    /\ pc[p] = "open_progress"
    /\ OpenStep(p, ProgressFile, "write_progress")

WriteProgress(p) ==
    /\ pc[p] = "write_progress"
    /\ WriteStep(p, ProgressFile,
                 progress_content(project_name(p), argv[p].description,
                                  ts[p].first, ts[p].second),
                 "open_init_script", <<"Created progress.txt">>)

\* variant: main() never calls create_init_script
OpenInitScriptSkipped(p) ==
    /\ pc[p] = "open_init_script"
    /\ Goto(p, "summary")
    /\ UNCHANGED <<dirs, files, clock, argv, ex, mk, ts, exitCode, out,
                   ioFaults, dirs0, files0, after1, lastWrite>>

OpenInitScript(p) ==
    /\ pc[p] = "open_init_script"
    /\ OpenStep(p, InitScriptFile, "write_init_script")

WriteInitScript(p) ==
    /\ pc[p] = "write_init_script"
    /\ WriteStep(p, InitScriptFile, init_script_content, "chmod", <<>>)

\* os.chmod(output_path, 0o755)
ChmodInitScript(p) ==
    /\ pc[p] = "chmod"
    /\ LET err == ChmodErr(files, InitScriptFile) IN
       IF err = "OK"
       THEN /\ files' = Chmod(files, InitScriptFile, ExecMode)
            /\ Goto(p, "summary")
            /\ Say(p, "Created init.sh")
            /\ UNCHANGED exitCode
       ELSE /\ Raise(p, err)
            /\ UNCHANGED files
    /\ UNCHANGED <<dirs, clock, argv, ex, mk, ts,
                   ioFaults, dirs0, files0, after1, lastWrite>>

\* the closing messages; main() returns and the process exits 0
Summary(p) ==
    /\ pc[p] = "summary"
    /\ Goto(p, "done")
    /\ exitCode' = [exitCode EXCEPT ![p] = 0]
    /\ Say(p, "Harness initialization complete")
    /\ after1' = IF p = 1 THEN [set |-> TRUE, dirs |-> dirs, files |-> files]
                          ELSE after1
    /\ UNCHANGED <<dirs, files, clock, argv, ex, mk, ts,
                   ioFaults, dirs0, files0, lastWrite>>

Step(p) ==
    \/ ParseArgs(p)
    \/ ResolvePath(p)
    \/ CheckExists(p)
    \/ MkdirProject(p)
    \/ MkdirHarness(p)
    \/ NowCreated(p)
    \/ NowLastUpdated(p)
    \/ OpenFeatureList(p)
    \/ DumpFeatureList(p)
    \/ NowProgressCreated(p)
    \/ NowSession(p)
    \/ OpenProgress(p)
    \/ WriteProgress(p)
    \/ OpenInitScript(p)
    \/ WriteInitScript(p)
    \/ ChmodInitScript(p)
    \/ Summary(p)

\* the second run starts after the first one has succeeded
Next ==
    \/ Tick
    \/ Step(1)
    \/ (pc[1] = "done" /\ Step(2))

Spec == Init /\ [][Next]_vars

\* both runs take steps in any order
NextConc ==
    \/ Tick
    \/ \E p \in Procs : Step(p)

SpecConc == InitConc /\ [][NextConc]_vars

\* ================================================================ claims
InHarness(fs) == {f \in AllFiles : DirOf(f) = HarnessDir /\ fs[f].kind = "file"}

\* C1 as stated: when main() finishes, the harness directory exists and
\* the files it contains are exactly feature_list.json, progress.txt and
\* init.sh.
C1_ExactlyThree ==
    \A p \in Procs :
        pc[p] = "done" =>
            /\ IsDir(dirs, HarnessDir)
            /\ InHarness(files) = HarnessFiles

\* C1 amended: when main() finishes, the harness directory exists and
\* contains the three files together with exactly the entries it held
\* before the run.
C1_ThreePlusPrevious ==
    \A p \in Procs :
        pc[p] = "done" =>
            /\ IsDir(dirs, ProjectDir)
            /\ IsDir(dirs, LongRunningDir)
            /\ IsDir(dirs, HarnessDir)
            /\ InHarness(files) = HarnessFiles \cup InHarness(files0)

C1_Witness ==
    /\ pc[1] = "done"
    /\ pc[2] = "parse"
    /\ files0[StrayFile].kind = "file"
    /\ files0[ProgressFile].kind = "absent"

\* the feature list on disk is the one create_feature_list wrote last
FeatureListWritten ==
    /\ lastWrite[FeatureListFile].by # 0
    /\ files[FeatureListFile].text = lastWrite[FeatureListFile].text

\* C2: in every feature_list.json written by create_feature_list,
\* metadata.total_features is the number of features (2),
\* metadata.completed_features is the number of passed features (0), and
\* every feature has passes false and priority high.
C2_FeatureListCounts ==
    FeatureListWritten =>
        LET text == files[FeatureListFile].text
            ids  == FeatureIds(text)
            passed == {i \in ids : "true" \in Values(text, "features", i, "passes")}
        IN
        /\ Cardinality(ids) = 2
        /\ \A i \in ids : Count(text, "features", i, "id") = 1
        /\ Values(text, "metadata", "", "total_features") = {JsonInt(Cardinality(ids))}
        /\ Values(text, "metadata", "", "completed_features") = {JsonInt(Cardinality(passed))}
        /\ Cardinality(passed) = 0
        /\ \A i \in ids :
             /\ Values(text, "features", i, "passes") = {"false"}
             /\ Values(text, "features", i, "priority") = {"high"}

\* the list it replaced had three features, one of them passed
C2_Witness ==
    /\ FeatureListWritten
    /\ files0[FeatureListFile].kind = "file"
    /\ pc[1] = "now_progress_created"

TimestampFields == {"created", "last_updated", "session"}
\* the text without the units that print a clock reading
StripTimestamps(text) == SelectSeq(text, LAMBDA u : u[3] \notin TimestampFields)
SameButTimestamps(a, b) ==
    /\ a.kind = b.kind
    /\ a.mode = b.mode
    /\ a.owned = b.owned
    /\ StripTimestamps(a.text) = StripTimestamps(b.text)

\* C3: a second run with the same arguments after a successful first run
\* succeeds (it can only stop on an I/O error of the medium), overwrites
\* all three files, and leaves the filesystem as the first run left it
\* except for the timestamp fields.
C3_RerunIdempotent ==
    /\ pc[2] = "failed" => (ioFaults /\ out[2][Len(out[2])] = WriteError)
    /\ pc[2] # "exit"
    /\ pc[2] = "done" =>
         /\ exitCode[2] = 0
         /\ dirs = after1.dirs
         /\ \A f \in AllFiles : SameButTimestamps(files[f], after1.files[f])
         /\ \A f \in HarnessFiles :
              /\ lastWrite[f].by = 2
              /\ files[f].text = lastWrite[f].text

\* the second run finished and its timestamps differ from the first run's
C3_Witness ==
    /\ pc[2] = "done"
    /\ files[FeatureListFile].text # after1.files[FeatureListFile].text
    /\ files[ProgressFile].text # after1.files[ProgressFile].text

\* C4: with fewer or more than three positionals the run ends with a
\* non-zero exit status after reporting the error, and no directory is
\* created and no file is written or changed.
C4_InvalidArgsNoEffect ==
    \A p \in Procs :
        argv[p].argc # RequiredPositionals =>
            /\ pc[p] \in {"parse", "exit"}
            /\ pc[p] = "exit" => (exitCode[p] # 0 /\ out[p] = <<"usage error">>)
            /\ pc[p] = "parse" => (exitCode[p] = -1 /\ out[p] = <<>>)
            /\ dirs = dirs0
            /\ files = files0

C4_Witness ==
    /\ pc[1] = "exit"
    /\ argv[1].argc > RequiredPositionals
    /\ dirs0[ProjectDir].kind = "absent"

\* the next os.mkdir attempt of p raises out of Path.mkdir
MkdirFails(p, target, existOk) ==
    LET j   == IF mk[p].phase = "idle" THEN target ELSE mk[p].cur
        err == OsMkdirErr(dirs, j)
        eok == IF j = target THEN existOk ELSE TRUE
    IN /\ err # "OK"
       /\ ~(err = "ENOENT" /\ mk[p].phase # "up")
       /\ ~(err # "ENOENT" /\ eok /\ IsDir(dirs, j))

\* the filesystem step p is about to take fails
StepFails(p) ==
    \/ pc[p] = "resolve" /\ ResolveErr(dirs, argv[p].project_path) # "OK"
    \/ pc[p] = "mkdir_project" /\ MkdirFails(p, ProjectDir, FALSE)
    \/ pc[p] = "mkdir_harness" /\ MkdirFails(p, HarnessDir, TRUE)
    \/ pc[p] = "open_feature_list" /\ OpenErr(dirs, files, FeatureListFile) # "OK"
    \/ pc[p] = "open_progress" /\ OpenErr(dirs, files, ProgressFile) # "OK"
    \/ pc[p] = "open_init_script" /\ OpenErr(dirs, files, InitScriptFile) # "OK"
    \/ pc[p] = "chmod" /\ ChmodErr(files, InitScriptFile) # "OK"

Moved(p) == pc'[p] # pc[p] \/ mk'[p] # mk[p] \/ ts'[p] # ts[p]

FreshHarness == InHarness(files0) \cap HarnessFiles = {}

IsPrefix(a, b) == Len(a) <= Len(b) /\ a = SubSeq(b, 1, Len(a))

\* the step removes nothing: directories stay, every file stays with its
\* mode and owner, and no text loses anything it held
NothingRemoved ==
    /\ dirs' = dirs
    /\ \A f \in AllFiles :
         /\ files'[f].kind = files[f].kind
         /\ files'[f].mode = files[f].mode
         /\ files'[f].owned = files[f].owned
         /\ IsPrefix(files[f].text, files'[f].text)
         /\ files'[f] # files[f] =>
               \E p \in Procs :
                  \/ pc[p] = "dump_feature_list" /\ f = FeatureListFile
                  \/ pc[p] = "write_progress" /\ f = ProgressFile
                  \/ pc[p] = "write_init_script" /\ f = InitScriptFile

C5_Ordered ==
    /\ \A p \in Procs : pc[p] = "failed" => exitCode[p] # 0
    /\ FreshHarness =>
         /\ files[ProgressFile].kind = "file" => files[FeatureListFile].kind = "file"
         /\ files[InitScriptFile].kind = "file" => files[ProgressFile].kind = "file"

C5_Abort ==
    /\ \A p \in Procs :
         /\ pc[p] = "failed" => (pc'[p] = "failed" /\ ~Moved(p) /\ out'[p] = out[p])
         /\ (StepFails(p) /\ Moved(p)) => pc'[p] = "failed"
         /\ (pc[p] # "failed" /\ pc'[p] = "failed") =>
                (exitCode'[p] # 0 /\ NothingRemoved)
    /\ pc[1] = "failed" => (dirs' = dirs /\ files' = files /\ pc'[2] = "parse")

\* C5: a failing filesystem step aborts the run there with a non-zero
\* exit; no later step runs, nothing already written is removed, the step
\* is not retried; on a fresh harness directory progress.txt exists only
\* if feature_list.json does and init.sh only if progress.txt does.
C5_AbortNoRollback == []C5_Ordered /\ [][C5_Abort]_vars

\* aborted part-way through the second file: the first one is still
\* there, complete
C5_Witness ==
    /\ pc[1] = "failed"
    /\ FreshHarness
    /\ files[FeatureListFile].kind = "file"
    /\ files[FeatureListFile].text = lastWrite[FeatureListFile].text
    /\ files[ProgressFile].kind = "file"
    /\ files[ProgressFile].text # <<>>
    /\ lastWrite[ProgressFile].by = 0
    /\ files[InitScriptFile].kind = "absent"

Said(p, msg) == \E i \in 1..Len(out[p]) : out[p][i] = msg

\* nothing on the chain is a regular file and the deepest existing
\* directory is writable
Creatable0 ==
    \A j \in 0..4 :
        /\ dirs0[j].kind # "file"
        /\ (dirs0[j].kind = "dir" /\ j < HarnessDir /\ dirs0[j + 1].kind = "absent")
              => MayWrite(dirs0[j])

\* the project path can be made absolute: it is absolute already, or the
\* working directory exists
Resolvable0 == argv[1].project_path.abs \/ dirs0[ParentDir].kind = "dir"

\* C6: a project path that does not exist is created, with its missing
\* parents and the harness subdirectory, and the run goes on to write the
\* files; an existing project directory is not re-created and the run goes
\* on equally.
C6_ProjectPathCreated ==
    /\ pc[1] \notin {"parse", "resolve", "exists", "mkdir_project", "mkdir_harness",
                     "failed", "exit"}
         => \A j \in Chain : IsDir(dirs, j)
    /\ (Creatable0 /\ Resolvable0 /\ pc[1] = "failed") => Said(1, "Initializing harness")
    /\ (dirs0[ProjectDir].kind = "absent" /\ Said(1, "Initializing harness")) =>
         /\ Said(1, "Created project directory")
         /\ \A j \in Chain : dirs0[j].kind = "absent" => dirs[j] = NewDir(1)
    /\ dirs0[ProjectDir].kind = "dir" =>
         /\ dirs[ProjectDir] = dirs0[ProjectDir]
         /\ ~Said(1, "Created project directory")
         /\ pc[1] # "mkdir_project"

C6_Witness ==
    /\ pc[1] = "open_feature_list"
    /\ dirs0[ParentDir].kind = "absent"
    /\ dirs[ProjectDir] = NewDir(1)

\* C7 as stated: two concurrent invocations on the same harness directory
\* both complete successfully, and each file ends with the content of the
\* invocation that wrote it last.
C7_BothSucceedLastWriterWins ==
    /\ \A p \in Procs : pc[p] # "failed"
    /\ (\A p \in Procs : pc[p] = "done") =>
         \A f \in HarnessFiles : files[f].text = lastWrite[f].text

\* C8 as stated: the timestamps one invocation writes (project.created,
\* metadata.last_updated, the Created line, the Session line) are one and
\* the same clock reading.
C8_SharedTimestamp ==
    (/\ pc[1] \in {"open_init_script", "write_init_script", "chmod", "summary", "done"}
     /\ pc[2] = "parse") =>
        LET fl == files[FeatureListFile].text
            pg == files[ProgressFile].text
        IN \E t \in 0..MaxClock :
             /\ Values(fl, "project", "", "created") = {IsoFormat(t)}
             /\ Values(fl, "metadata", "", "last_updated") = {IsoFormat(t)}
             /\ Values(pg, "progress", "", "created") = {MinuteFormat(t)}
             /\ Values(pg, "progress", "", "session") = {MinuteFormat(t)}

\* C9 as stated: whenever init.sh exists as the result of a run, its mode
\* is 0755.
C9_AlwaysExecutable ==
    (/\ files[InitScriptFile].kind = "file"
     /\ (files0[InitScriptFile].kind = "absent" \/ lastWrite[InitScriptFile].by # 0))
        => files[InitScriptFile].mode = ExecMode

\* C9 amended: once a run has completed create_init_script (so at the end
\* of every successful run) init.sh exists with mode 0755.
C9_ExecutableAfterChmod ==
    (\E p \in Procs : pc[p] \in {"summary", "done"}) =>
        /\ files[InitScriptFile].kind = "file"
        /\ files[InitScriptFile].mode = ExecMode

C9_Witness ==
    /\ pc[1] = "summary"
    /\ files0[InitScriptFile].kind = "file"
    /\ files0[InitScriptFile].mode # ExecMode

\* every text invocation p can render for file f
Rendered(f, p) ==
    IF f = FeatureListFile
    THEN {JsonDump(feature_list(project_name(p), argv[p].description, a, b)) :
             a \in 0..MaxClock, b \in 0..MaxClock}
    ELSE IF f = ProgressFile
    THEN {progress_content(project_name(p), argv[p].description, a, b) :
             a \in 0..MaxClock, b \in 0..MaxClock}
    ELSE {init_script_content}

\* text is what invocation p renders for file f from some clock readings:
\* apart from the timestamp units it is the template filled from argv,
\* and each timestamp unit is the one some clock reading prints
Template(f, p) ==
    IF f = FeatureListFile
    THEN JsonDump(feature_list(project_name(p), argv[p].description, 0, 0))
    ELSE IF f = ProgressFile
    THEN progress_content(project_name(p), argv[p].description, 0, 0)
    ELSE init_script_content
TimestampUnits(f) ==
    IF f = FeatureListFile
    THEN {CreatedUnit(IsoFormat(t)) : t \in 0..MaxClock}
         \cup {LastUpdatedUnit(IsoFormat(t)) : t \in 0..MaxClock}
    ELSE IF f = ProgressFile
    THEN {ProgressCreatedUnit(MinuteFormat(t)) : t \in 0..MaxClock}
         \cup {SessionUnit(MinuteFormat(t)) : t \in 0..MaxClock}
    ELSE {}
\* a is a beginning of b, shorter than b and not empty
CutOf(a, b) == Len(a) \in 1..(Len(b) - 1) /\ a = SubSeq(b, 1, Len(a))
RenderedBy(f, p, text) ==
    LET tmpl  == Template(f, p)
        n     == Len(text)
        cut   == n > 0 /\ text[n][1] = "cut"
        whole == IF cut THEN SubSeq(text, 1, n - 1) ELSE text
    IN
    /\ IsPrefix(StripTimestamps(whole), StripTimestamps(tmpl))
    /\ \A i \in 1..Len(whole) :
         whole[i][3] \in TimestampFields => whole[i] \in TimestampUnits(f)
    /\ cut =>
         /\ n <= Len(tmpl)
         /\ \E u \in (IF tmpl[n][3] \in TimestampFields
                      THEN {v \in TimestampUnits(f) : v[3] = tmpl[n][3]}
                      ELSE {tmpl[n]}) : CutOf(text[n][5], u[5])

\* C10: a run only creates missing directories of the chain, writes the
\* three harness files and sets the mode of init.sh; every other file or
\* directory keeps content and mode, and what is written (the whole
\* rendered text, or its beginning when the write fails) does not depend
\* on what the three files held before.
C10_Frame ==
    /\ files[StrayFile] = files0[StrayFile]
    /\ files[ReadmeFile] = files0[ReadmeFile]
    /\ \A j \in 0..4 :
         IF dirs0[j].kind # "absent"
         THEN dirs[j] = dirs0[j]
         ELSE dirs[j] \in {AbsentDir} \cup {NewDir(p) : p \in Procs}
    /\ \A f \in HarnessFiles :
         \/ files[f] = files0[f]
         \/ /\ files[f].kind = "file"
            /\ files[f].owned = (IF files0[f].kind = "file" THEN files0[f].owned ELSE TRUE)
            /\ files[f].mode \in
                 {IF files0[f].kind = "file" THEN files0[f].mode ELSE FileCreateMode}
                 \cup (IF f = InitScriptFile THEN {ExecMode} ELSE {})
            /\ \/ files[f].text \in {files0[f].text, <<>>}
               \/ \E p \in Procs : RenderedBy(f, p, files[f].text)
    /\ (pc[1] = "done" /\ pc[2] = "parse") =>
         \A f \in HarnessFiles : files[f].text \in Rendered(f, 1)

C10_Witness ==
    /\ pc[1] = "done"
    /\ files0[StrayFile].kind = "file"
    /\ \A f \in HarnessFiles : files0[f].kind = "file" /\ files[f].text # files0[f].text
====
